---- MODULE Spec2Model ----
(***************************************************************************)
(* The Kubernetes drawer of plugins/kubernetes:                            *)
(*   - replaceNullsWithUndefined, the null normalizer                      *)
(*     (JSON.stringify with a replacer, then JSON.parse);                  *)
(*   - tryFormatClusterLink, the boundary around formatClusterLink;        *)
(*   - the jsYaml.dump projection with its managedFields replacer;         *)
(*   - the drawer's state: isOpen, isYaml, managedFields.                  *)
(* JavaScript values are tagged records: t is the typeof/kind, v the       *)
(* payload. An array's payload is the sequence of its elements, an         *)
(* object's payload the sequence of its <<key, value>> pairs in insertion  *)
(* order.                                                                  *)
(***************************************************************************)
EXTENDS Integers, Sequences, FiniteSets, TLC

VARIABLES
  object,        \* props.object of the drawer
  kind,          \* props.kind
  cluster,       \* useContext(ClusterContext)
  isOpen,        \* KubernetesDrawer: useState(expanded)
  isYaml,        \* KubernetesDrawerContent: useState(false)
  managedFields, \* KubernetesDrawerContent: useState(false)
  view,          \* what the last render of KubernetesDrawerContent produced
  someObj,       \* the argument of a call of replaceNullsWithUndefined
  input,         \* the value the caller passed as someObj
  pc,            \* position of the caller: "start", "once", "twice"
  first,         \* outcome of replaceNullsWithUndefined(someObj)
  second         \* outcome of replaceNullsWithUndefined on the first result

vars == <<object, kind, cluster, isOpen, isYaml, managedFields, view,
          someObj, input, pc, first, second>>

drawerVars == <<object, kind, cluster, isOpen, isYaml, managedFields, view>>
callVars == <<someObj, input, pc, first, second>>

-----------------------------------------------------------------------------
(* JavaScript values *)

Null == [t |-> "null"]
Undefined == [t |-> "undefined"]
Bool(b) == [t |-> "boolean", v |-> b]
Num(n) == [t |-> "number", v |-> n]
Str(s) == [t |-> "string", v |-> s]
Arr(elems) == [t |-> "array", v |-> elems]
Obj(pairs) == [t |-> "object", v |-> pairs]

\* A string built by a template literal or by concatenation, kept as its
\* fragments so that "contains" can be asked of it.
Tpl(parts) == [t |-> "template", parts |-> parts]

\* The outcome of a call: a returned value or a thrown one.
Returned(value) == [status |-> "returned", value |-> value]
Threw(err) == [status |-> "threw", value |-> err]
Error(name, message) == [t |-> "error", name |-> name, message |-> message]
NotCalled == [status |-> "not called"]

\* JavaScript truthiness, for the values that are tested in the drawer.
Truthy(x) ==
  CASE x.t = "null" -> FALSE
    [] x.t = "undefined" -> FALSE
    [] x.t = "boolean" -> x.v
    [] x.t = "number" -> x.v # 0
    [] x.t = "string" -> x.v # ""
    [] x.t = "template" -> \E i \in DOMAIN x.parts : x.parts[i] # ""
    [] OTHER -> TRUE

\* Whether the string x has s as one of its fragments.
Contains(x, s) == x.t = "template" /\ \E i \in DOMAIN x.parts : x.parts[i] = s

\* Property access value[key]: undefined unless value is an object having key.
Get(value, key) ==
  IF value.t = "object" /\ \E i \in DOMAIN value.v : value.v[i][1] = key
  THEN value.v[CHOOSE i \in DOMAIN value.v : value.v[i][1] = key][2]
  ELSE Undefined

Has(value, key) == value.t = "object" /\ \E i \in DOMAIN value.v : value.v[i][1] = key

RECURSIVE String(_)
RECURSIVE Join(_)

\* Array.prototype.join(","): null and undefined elements give "".
Join(elems) ==
  IF elems = <<>> THEN ""
  ELSE LET e == elems[1]
           s == IF e.t \in {"null", "undefined"} THEN "" ELSE String(e)
       IN  IF Len(elems) = 1 THEN s ELSE s \o "," \o Join(Tail(elems))

\* String(value), the conversion the replacer applies.
String(value) ==
  CASE value.t = "null" -> "null"
    [] value.t = "undefined" -> "undefined"
    [] value.t = "boolean" -> (IF value.v THEN "true" ELSE "false")
    [] value.t = "number" -> ToString(value.v)
    [] value.t = "string" -> value.v
    [] value.t = "array" -> Join(value.v)
    [] value.t = "object" -> "[object Object]"

\* The condition of the replacer: the node's string form is one of the two
\* filtered literals.
Removable(value) == String(value) = "null" \/ String(value) = "undefined"

-----------------------------------------------------------------------------
(* replaceNullsWithUndefined *)

\* A replacer that turns undefined into null and strips only "null".
replacer_undefinedToNull(key, value) ==
  IF String(value) = "null" THEN Undefined
  ELSE IF value.t = "undefined" THEN Null ELSE value

\* A replacer that forgets the "undefined" literal.
replacer_onlyNull(key, value) ==
  IF String(value) = "null" THEN Undefined ELSE value

replacer(key, value) ==
  IF String(value) = "null" \/ String(value) = "undefined"
  THEN Undefined
  ELSE value

\* JSON text is kept as its syntax tree: j is the production, lit the literal.
NoText == [j |-> "none"]
JNull == [j |-> "null"]

RECURSIVE SerializeJSONProperty(_, _)
RECURSIVE SerializeJSONObject(_)
RECURSIVE SerializeJSONArray(_, _)

\* JSON.stringify's SerializeJSONProperty with the replacer: the replacer sees
\* every node first, its own result is what is serialized.
SerializeJSONProperty(key, held) ==
  LET value == replacer(key, held)
  IN  CASE value.t = "undefined" -> NoText
        [] value.t = "null" -> JNull
        [] value.t = "boolean" -> [j |-> "boolean", lit |-> value.v]
        [] value.t = "number" -> [j |-> "number", lit |-> value.v]
        [] value.t = "string" -> [j |-> "string", lit |-> value.v]
        [] value.t = "array" ->
             [j |-> "array", items |-> SerializeJSONArray(value.v, 0)]
        [] value.t = "object" ->
             [j |-> "object", members |-> SerializeJSONObject(value.v)]

\* A member whose property serializes to undefined is left out.
SerializeJSONObject(pairs) ==
  IF pairs = <<>> THEN <<>>
  ELSE LET strP == SerializeJSONProperty(pairs[1][1], pairs[1][2])
           rest == SerializeJSONObject(Tail(pairs))
       IN  IF strP = NoText THEN rest ELSE << <<pairs[1][1], strP>> >> \o rest

\* An element whose property serializes to undefined is written as null.
SerializeJSONArray(elems, index) ==
  IF elems = <<>> THEN <<>>
  ELSE LET strP == SerializeJSONProperty(ToString(index), elems[1])
       IN  <<IF strP = NoText THEN JNull ELSE strP>>
             \o SerializeJSONArray(Tail(elems), index + 1)

JSONstringify(value) == SerializeJSONProperty("", value)

RECURSIVE JSONparse(_)
JSONparse(text) ==
  CASE text.j = "null" -> Null
    [] text.j = "boolean" -> Bool(text.lit)
    [] text.j = "number" -> Num(text.lit)
    [] text.j = "string" -> Str(text.lit)
    [] text.j = "array" ->
         Arr([i \in DOMAIN text.items |-> JSONparse(text.items[i])])
    [] text.j = "object" ->
         Obj([i \in DOMAIN text.members |->
                <<text.members[i][1], JSONparse(text.members[i][2])>>])

\* JSON.stringify returns undefined when the replacer drops the root;
\* JSON.parse(undefined) parses the text "undefined" and throws SyntaxError.
replaceNullsWithUndefined(obj) ==
  LET text == JSONstringify(obj)
  IN  IF text = NoText
      THEN Threw(Error("SyntaxError", Tpl(<<"Unexpected token u in JSON">>)))
      ELSE Returned(JSONparse(text))

-----------------------------------------------------------------------------
(* formatClusterLink and tryFormatClusterLink *)

SupportedApps == {"standard", "gke"}

GkeParameters == <<"projectId", "region", "clusterName">>

\* formatClusterLink of utils/clusterLinks. It returns undefined when nothing
\* is configured to format a link from, throws an Error for an unsupported
\* dashboard application, for a template with a missing variable and for an
\* object without its required field, and returns the URL otherwise.
formatClusterLink(options) ==
  IF ~Truthy(options.dashboardUrl) /\ ~Truthy(options.dashboardParameters)
  THEN Returned(Undefined)
  ELSE
    LET app == IF Truthy(options.dashboardApp)
               THEN options.dashboardApp.v ELSE "standard"
        name == Get(Get(options.object, "metadata"), "name")
        params == options.dashboardParameters
    IN  IF app \notin SupportedApps
        THEN Threw(Error("Error",
               Tpl(<<"Could not find Kubernetes dashboard app named '", app, "'">>)))
        ELSE IF ~Truthy(name)
        THEN Threw(Error("Error",
               Tpl(<<"Object is missing required field '", "metadata.name", "'">>)))
        ELSE IF app = "standard"
        THEN IF ~Truthy(options.dashboardUrl)
             THEN Threw(Error("Error",
                    Tpl(<<"standard dashboard requires a dashboardUrl option">>)))
             ELSE Returned(Tpl(<<options.dashboardUrl.v, "/", options.kind,
                                 "/", name.v>>))
        ELSE IF \E i \in DOMAIN GkeParameters : ~Truthy(Get(params, GkeParameters[i]))
        THEN Threw(Error("Error",
               Tpl(<<"GKE dashboard requires a ",
                     GkeParameters[CHOOSE i \in DOMAIN GkeParameters :
                                     ~Truthy(Get(params, GkeParameters[i]))],
                     " parameter">>)))
        ELSE Returned(Tpl(<<"https://console.cloud.google.com/kubernetes/",
                            options.kind, "/", Get(params, "region").v, "/",
                            Get(params, "clusterName").v, "/", name.v,
                            "?project=", Get(params, "projectId").v>>))

\* Error.prototype.toString(): the name, then ": " and the message if any.
ErrorToString(err) ==
  IF Truthy(err.message)
  THEN Tpl(<<err.name, ": ">> \o err.message.parts)
  ELSE Tpl(<<err.name>>)

\* tryFormatClusterLink without its try/catch: the failure propagates.
tryFormatClusterLink_noCatch(options) ==
  LET r == formatClusterLink(options)
  IN  IF r.status = "returned"
      THEN Returned([clusterLink |-> r.value, errorMessage |-> Str("")])
      ELSE r

\* tryFormatClusterLink whose catch falls back to the bare dashboard URL.
tryFormatClusterLink_fallbackLink(options) ==
  LET r == formatClusterLink(options)
  IN  IF r.status = "returned"
      THEN Returned([clusterLink |-> r.value, errorMessage |-> Str("")])
      ELSE Returned([clusterLink |-> Tpl(<<"https://k8s.example.com">>),
                     errorMessage |-> r.value.message])

\* try { return {clusterLink: formatClusterLink(options), errorMessage: ''} }
\* catch (err) { return {clusterLink: '', errorMessage: err.message || err.toString()} }
\* Reading err.message of a thrown null or undefined throws a TypeError.
tryFormatClusterLink(options) ==
  LET r == formatClusterLink(options)
  IN  IF r.status = "returned"
      THEN Returned([clusterLink |-> r.value, errorMessage |-> Str("")])
      ELSE LET err == r.value
           IN  IF err.t \in {"null", "undefined"}
               THEN Threw(Error("TypeError",
                      Tpl(<<"Cannot read properties of ", err.t>>)))
               ELSE Returned([clusterLink |-> Str(""),
                              errorMessage |->
                                IF Truthy(err.message) THEN err.message
                                ELSE ErrorToString(err)])

\* An ErrorPanel whose message leaves the cluster's name out.
ErrorPanel_withoutName(clstr, errorMessage) ==
  [title |-> "There was a problem formatting the link to the Kubernetes dashboard",
   message |->
     Tpl(<<"Could not format the link to the dashboard of your cluster",
           ". Its dashboardApp property has been set to '",
           IF Truthy(clstr.dashboardApp) THEN clstr.dashboardApp.v ELSE "standard",
           ".'">>),
   children |->
     IF Truthy(errorMessage)
     THEN Tpl(<<"Errors: ">> \o errorMessage.parts)
     ELSE Undefined]

\* The WarningPanel of ErrorPanel: its title, its message and its children.
ErrorPanel(clstr, errorMessage) ==
  [title |-> "There was a problem formatting the link to the Kubernetes dashboard",
   message |->
     Tpl(<<"Could not format the link to the dashboard of your cluster named '",
           clstr.name,
           "'. Its dashboardApp property has been set to '",
           IF Truthy(clstr.dashboardApp) THEN clstr.dashboardApp.v ELSE "standard",
           ".'">>),
   children |->
     IF Truthy(errorMessage)
     THEN Tpl(<<"Errors: ">> \o errorMessage.parts)
     ELSE Undefined]

-----------------------------------------------------------------------------
(* jsYaml.dump with the managedFields replacer *)

\* A replacer that filters when the flag is set instead of when it is not.
yamlReplacer_inverted(managed, key, value) ==
  IF managed
  THEN IF key = "managedFields" THEN Undefined ELSE value
  ELSE value

\* replacer: (key, value) => managedFields ? value
\*   : key === 'managedFields' ? undefined : value
yamlReplacer(managed, key, value) ==
  IF ~managed
  THEN IF key = "managedFields" THEN Undefined ELSE value
  ELSE value

\* YAML text is kept as its node tree: y is the node kind, tag and text the
\* scalar written.
NoNode == [y |-> "none"]
YNull == [y |-> "scalar", tag |-> "null", text |-> "null"]

RECURSIVE writeNode(_, _)
RECURSIVE writeMapping(_, _)
RECURSIVE writeSequence(_, _, _)

\* js-yaml's writeNode: false (nothing written) for undefined.
writeNode(managed, value) ==
  CASE value.t = "undefined" -> NoNode
    [] value.t = "null" -> YNull
    [] value.t = "boolean" ->
         [y |-> "scalar", tag |-> "boolean",
          text |-> IF value.v THEN "true" ELSE "false"]
    [] value.t = "number" ->
         [y |-> "scalar", tag |-> "number", text |-> ToString(value.v)]
    [] value.t = "string" ->
         [y |-> "scalar", tag |-> "string", text |-> value.v]
    [] value.t = "array" ->
         [y |-> "sequence", items |-> writeSequence(managed, value.v, 0)]
    [] value.t = "object" ->
         [y |-> "mapping", pairs |-> writeMapping(managed, value.v)]

\* js-yaml's mapping writers: the replacer is called with each key, and a pair
\* whose value is not written is skipped.
writeMapping(managed, pairs) ==
  IF pairs = <<>> THEN <<>>
  ELSE LET objectKey == pairs[1][1]
           objectValue == yamlReplacer(managed, objectKey, pairs[1][2])
           node == writeNode(managed, objectValue)
           rest == writeMapping(managed, Tail(pairs))
       IN  IF node = NoNode THEN rest ELSE << <<objectKey, node>> >> \o rest

\* js-yaml's sequence writers: the replacer is called with the index as key,
\* and null is written in place of an undefined element.
writeSequence(managed, elems, index) ==
  IF elems = <<>> THEN <<>>
  ELSE LET value == yamlReplacer(managed, ToString(index), elems[1])
           node == writeNode(managed, value)
       IN  <<IF node = NoNode THEN YNull ELSE node>>
             \o writeSequence(managed, Tail(elems), index + 1)

\* jsYaml.dump(object, {replacer}): the replacer sees the root under the key
\* ''; nothing written gives the empty text.
dump(obj, managed) ==
  LET node == writeNode(managed, yamlReplacer(managed, "", obj))
  IN  IF node = NoNode THEN [y |-> "empty"] ELSE node

-----------------------------------------------------------------------------
(* KubernetesDrawerContent and KubernetesDrawer *)

Unmounted == [status |-> "unmounted"]

\* {errorMessage && <ErrorPanel .../>} with an empty errorMessage.
NoPanel == [title |-> "", message |-> Str(""), children |-> Undefined]

Options(obj, knd, clstr) ==
  [dashboardUrl |-> clstr.dashboardUrl,
   dashboardApp |-> clstr.dashboardApp,
   dashboardParameters |-> clstr.dashboardParameters,
   object |-> obj,
   kind |-> knd]

\* object.metadata?.name ?? 'unknown name'
Title(obj) ==
  LET metadata == Get(obj, "metadata")
      name == IF metadata.t \in {"null", "undefined"}
              THEN Undefined ELSE Get(metadata, "name")
  IN  IF name.t \in {"null", "undefined"} THEN Str("unknown name") ELSE name

\* One render of KubernetesDrawerContent with the given props and state. A
\* throw of a call made while rendering ends the render.
KubernetesDrawerContent(obj, knd, clstr, yaml, managed) ==
  LET fmt == tryFormatClusterLink(Options(obj, knd, clstr))
      table == IF yaml THEN NotCalled ELSE replaceNullsWithUndefined(obj)
  IN  IF fmt.status = "threw"
      THEN [status |-> "crashed", error |-> fmt.value]
      ELSE IF table.status = "threw"
      THEN [status |-> "crashed", error |-> table.value]
      ELSE
        [status |-> "rendered",
         title |-> Title(obj),
         subtitle |-> knd,
         clusterLink |-> fmt.value.clusterLink,
         errorMessage |-> fmt.value.errorMessage,
         errorPanel |->
           IF Truthy(fmt.value.errorMessage)
           THEN ErrorPanel(clstr, fmt.value.errorMessage)
           ELSE NoPanel,
         linkButton |->
           IF Truthy(fmt.value.clusterLink)
           THEN fmt.value.clusterLink ELSE Undefined,
         yamlSwitch |-> yaml,
         managedFieldsSwitch |-> (yaml /\ managed),
         content |->
           IF yaml
           THEN [component |-> "CodeSnippet", text |-> dump(obj, managed)]
           ELSE [component |-> "StructuredMetadataTable",
                 metadata |-> table.value]]

-----------------------------------------------------------------------------
(* Inputs of replaceNullsWithUndefined *)

MaxLen == 2

Scalars ==
  {Null, Undefined, Str("null"), Str("undefined"), Str("a"), Num(1), Bool(TRUE)}

Keys == <<"a", "b", "c">>

\* Arrays of at most n elements of S.
ArraysOf(S, n) == {Arr(s) : s \in UNION {[1..k -> S] : k \in 0..n}}

RECURSIVE PairsOf(_, _)
\* The pair sequences over the keys from position k on: each key absent or
\* bound to a value of S.
PairsOf(S, k) ==
  IF k > Len(Keys) THEN {<<>>}
  ELSE LET rest == PairsOf(S, k + 1)
       IN  rest \cup {<< <<Keys[k], x>> >> \o r : x \in S, r \in rest}

ObjectsOf(S) == {Obj(p) : p \in PairsOf(S, 1)}

Containers == ArraysOf(Scalars, MaxLen) \cup ObjectsOf(Scalars)

Siblings == {Null, Num(1)}

\* A container inside an array or an object, alone or beside a scalar.
Nested ==
  {Arr(<<c>>) : c \in Containers}
    \cup {Arr(<<c, s>>) : c \in Containers, s \in Siblings}
    \cup {Obj(<< <<"a", c>> >>) : c \in Containers}
    \cup {Obj(<< <<"a", c>>, <<"b", s>> >>) : c \in Containers, s \in Siblings}

Values == Scalars \cup Containers \cup Nested

\* Drawer state while only the normalizer is exercised.
DrawerIdle ==
  /\ object = Obj(<<>>)
  /\ kind = "Pod"
  /\ cluster = [name |-> "prod", dashboardUrl |-> Undefined,
                dashboardApp |-> Undefined, dashboardParameters |-> Undefined]
  /\ isOpen = FALSE
  /\ isYaml = FALSE
  /\ managedFields = FALSE
  /\ view = Unmounted

InitNormalize ==
  /\ input \in Values
  /\ someObj = input
  /\ pc = "start"
  /\ first = NotCalled
  /\ second = NotCalled
  /\ DrawerIdle

\* const out = replaceNullsWithUndefined(someObj)
Normalize ==
  /\ pc = "start"
  /\ first' = replaceNullsWithUndefined(someObj)
  /\ pc' = "once"
  /\ UNCHANGED <<someObj, input, second>>
  /\ UNCHANGED drawerVars

\* replaceNullsWithUndefined(out), when the first call returned
NormalizeAgain ==
  /\ pc = "once"
  /\ first.status = "returned"
  /\ second' = replaceNullsWithUndefined(first.value)
  /\ pc' = "twice"
  /\ UNCHANGED <<someObj, input, first>>
  /\ UNCHANGED drawerVars

NextNormalize == Normalize \/ NormalizeAgain

SpecNormalize == InitNormalize /\ [][NextNormalize]_vars

-----------------------------------------------------------------------------
(* The drawer: its props, its state and its handlers *)

ManagedEntry == Obj(<< <<"manager", Str("kubectl")>> >>)

Metadatas ==
  {Null,
   Obj(<<>>),
   Obj(<< <<"name", Str("pod-a")>> >>),
   Obj(<< <<"name", Str("pod-a")>>, <<"managedFields", Arr(<<ManagedEntry>>)>> >>),
   Obj(<< <<"managedFields", Arr(<<ManagedEntry, Null>>)>>, <<"name", Null>> >>)}

ResourceSpecs ==
  {Null,
   Obj(<< <<"replicas", Num(1)>> >>),
   Obj(<< <<"template",
            Obj(<< <<"managedFields", Str("x")>>, <<"a", Null>> >>)>> >>),
   Obj(<< <<"items",
            Arr(<<Obj(<< <<"managedFields", Num(1)>>, <<"a", Str("null")>> >>),
                  Null>>)>> >>)}

Statuses == {Str("Running"), Null}

\* The member under key, absent or bound to one of S.
Member(key, S) == {<<>>} \cup {<< <<key, x>> >> : x \in S}

\* Deserialized resource descriptions: objects of null, scalars, arrays and
\* objects, with managedFields at several depths.
Objects ==
  {Obj(m \o sp \o st \o mf) :
     m \in Member("metadata", Metadatas),
     sp \in Member("spec", ResourceSpecs),
     st \in Member("status", Statuses),
     mf \in Member("managedFields", {Arr(<<>>)})}

Kinds == {"Pod", "Deployment"}

ClusterNames == {"prod", "staging"}

DashboardUrls == {Undefined, Str("https://k8s.example.com")}

DashboardApps == {Undefined, Str("standard"), Str("gke"), Str("bogus")}

DashboardParameters ==
  {Undefined,
   Obj(<< <<"projectId", Str("p1")>> >>),
   Obj(<< <<"projectId", Str("p1")>>, <<"region", Str("eu")>>,
          <<"clusterName", Str("c1")>> >>)}

Clusters ==
  [name : ClusterNames, dashboardUrl : DashboardUrls,
   dashboardApp : DashboardApps, dashboardParameters : DashboardParameters]

\* No call of the normalizer outside the drawer's own render.
CallIdle ==
  /\ someObj = Null
  /\ input = Null
  /\ pc = "idle"
  /\ first = NotCalled
  /\ second = NotCalled

\* KubernetesDrawer mounts with isOpen = expanded; the Drawer mounts its
\* content, with isYaml = managedFields = false, only while it is open.
Init ==
  /\ object \in Objects
  /\ kind \in Kinds
  /\ cluster \in Clusters
  /\ isOpen \in BOOLEAN
  /\ isYaml = FALSE
  /\ managedFields = FALSE
  /\ view = IF isOpen
            THEN KubernetesDrawerContent(object, kind, cluster, FALSE, FALSE)
            ELSE Unmounted
  /\ CallIdle

\* PodDrawerButton onClick: toggleDrawer(e, true)
OpenDrawer ==
  /\ ~isOpen
  /\ isOpen' = TRUE
  /\ isYaml' = FALSE
  /\ managedFields' = FALSE
  /\ view' = KubernetesDrawerContent(object, kind, cluster, FALSE, FALSE)
  /\ UNCHANGED <<object, kind, cluster>>
  /\ UNCHANGED callVars

\* IconButton onClick and Drawer onClose: toggleDrawer(e, false). The closed
\* Drawer unmounts its content, whose state is discarded.
CloseDrawer ==
  /\ isOpen
  /\ isOpen' = FALSE
  /\ isYaml' = FALSE
  /\ managedFields' = FALSE
  /\ view' = Unmounted
  /\ UNCHANGED <<object, kind, cluster>>
  /\ UNCHANGED callVars

\* A YAML handler that also clears the managed-fields flag when leaving YAML.
OnYamlChange_clearsManagedFields(checked) ==
  /\ isOpen
  /\ isYaml' = checked
  /\ managedFields' = (checked /\ managedFields)
  /\ view' = KubernetesDrawerContent(object, kind, cluster, isYaml',
                                     managedFields')
  /\ UNCHANGED <<object, kind, cluster, isOpen>>
  /\ UNCHANGED callVars

\* YAML Switch onChange: setIsYaml(event.target.checked), then the re-render.
OnYamlChange(checked) ==
  /\ isOpen
  /\ isYaml' = checked
  /\ managedFields' = managedFields
  /\ view' = KubernetesDrawerContent(object, kind, cluster, isYaml',
                                     managedFields')
  /\ UNCHANGED <<object, kind, cluster, isOpen>>
  /\ UNCHANGED callVars

\* A Managed Fields handler without the isYaml guard.
OnManagedFieldsChange_noGuard(checked) ==
  /\ isOpen
  /\ managedFields' = checked
  /\ isYaml' = isYaml
  /\ view' = KubernetesDrawerContent(object, kind, cluster, isYaml',
                                     managedFields')
  /\ UNCHANGED <<object, kind, cluster, isOpen>>
  /\ UNCHANGED callVars

\* Managed Fields Switch onChange:
\* if (isYaml) setManagedFields(event.target.checked), then the re-render.
OnManagedFieldsChange(checked) ==
  /\ isOpen
  /\ managedFields' = IF isYaml THEN checked ELSE managedFields
  /\ isYaml' = isYaml
  /\ view' = KubernetesDrawerContent(object, kind, cluster, isYaml',
                                     managedFields')
  /\ UNCHANGED <<object, kind, cluster, isOpen>>
  /\ UNCHANGED callVars

Next ==
  \/ OpenDrawer
  \/ CloseDrawer
  \/ \E checked \in BOOLEAN : OnYamlChange(checked)
  \/ \E checked \in BOOLEAN : OnManagedFieldsChange(checked)

Spec == Init /\ [][Next]_vars

-----------------------------------------------------------------------------
(* The drawer's properties *)

CurrentOptions == Options(object, kind, cluster)

\* The configured dashboard application is none of the supported ones.
Unsupported(clstr) ==
  Truthy(clstr.dashboardApp) /\ clstr.dashboardApp.v \notin SupportedApps

\* There is something configured to format a link from.
Attempted(clstr) ==
  Truthy(clstr.dashboardUrl) \/ Truthy(clstr.dashboardParameters)

\* C1 as stated: for every outcome of formatClusterLink the result has either
\* a non-empty clusterLink and an empty errorMessage, or an empty clusterLink
\* and a non-empty errorMessage.
C1_ExactlyOne ==
  view.status = "rendered" =>
    \/ Truthy(view.clusterLink) /\ ~Truthy(view.errorMessage)
    \/ ~Truthy(view.clusterLink) /\ Truthy(view.errorMessage)

\* C1 as amended: never both are non-empty; a returned non-empty link comes
\* with an empty errorMessage, a thrown error with an empty link and a
\* non-empty errorMessage; both are empty exactly when formatClusterLink
\* returned an empty or undefined value.
C1_ExactlyOneUnlessNothingReturned ==
  view.status = "rendered" =>
    LET r == formatClusterLink(CurrentOptions)
    IN  /\ ~(Truthy(view.clusterLink) /\ Truthy(view.errorMessage))
        /\ (r.status = "returned" /\ Truthy(r.value))
             => /\ view.clusterLink = r.value
                /\ ~Truthy(view.errorMessage)
        /\ r.status = "threw"
             => /\ ~Truthy(view.clusterLink)
                /\ Truthy(view.errorMessage)
        /\ (~Truthy(view.clusterLink) /\ ~Truthy(view.errorMessage))
             <=> (r.status = "returned" /\ ~Truthy(r.value))

\* C1 witness: a successful format has been rendered.
C1_Witness ==
  /\ view.status = "rendered"
  /\ formatClusterLink(CurrentOptions).status = "returned"
  /\ Truthy(view.clusterLink)
  /\ ~Truthy(view.errorMessage)
  /\ view.linkButton = view.clusterLink

\* C2: whatever formatClusterLink throws, tryFormatClusterLink returns
\* normally and the render that called it completes.
C2_FailureNeverPropagates ==
  isOpen =>
    /\ tryFormatClusterLink(CurrentOptions).status = "returned"
    /\ view.status = "rendered"

\* C2 witness: formatClusterLink threw and the drawer's content is rendered.
C2_Witness ==
  /\ isOpen
  /\ formatClusterLink(CurrentOptions).status = "threw"
  /\ view.status = "rendered"
  /\ view.content.component \in {"CodeSnippet", "StructuredMetadataTable"}

RECURSIVE ValueNodes(_, _)
\* The nodes of a value, each with the path of keys and indices leading to it.
ValueNodes(path, value) ==
  CASE value.t = "array" ->
         {[path |-> path, tag |-> "sequence", text |-> ""]} \cup
           UNION {ValueNodes(Append(path, ToString(i - 1)), value.v[i]) :
                    i \in DOMAIN value.v}
    [] value.t = "object" ->
         {[path |-> path, tag |-> "mapping", text |-> ""]} \cup
           UNION {ValueNodes(Append(path, value.v[i][1]), value.v[i][2]) :
                    i \in DOMAIN value.v}
    [] OTHER -> {[path |-> path, tag |-> value.t, text |-> String(value)]}

RECURSIVE YamlNodes(_, _)
\* The nodes of a YAML text, each with its path.
YamlNodes(path, node) ==
  CASE node.y = "sequence" ->
         {[path |-> path, tag |-> "sequence", text |-> ""]} \cup
           UNION {YamlNodes(Append(path, ToString(i - 1)), node.items[i]) :
                    i \in DOMAIN node.items}
    [] node.y = "mapping" ->
         {[path |-> path, tag |-> "mapping", text |-> ""]} \cup
           UNION {YamlNodes(Append(path, node.pairs[i][1]), node.pairs[i][2]) :
                    i \in DOMAIN node.pairs}
    [] node.y = "scalar" -> {[path |-> path, tag |-> node.tag, text |-> node.text]}
    [] OTHER -> {}

UnderManagedFields(path) == \E i \in DOMAIN path : path[i] = "managedFields"

\* C8: in the YAML projection, with the managed-fields flag false every key
\* named managedFields is omitted at every depth and every other node is
\* kept; with the flag true nothing is filtered.
C8_ManagedFieldsFilter ==
  (view.status = "rendered" /\ isYaml) =>
    /\ view.content.component = "CodeSnippet"
    /\ YamlNodes(<<>>, view.content.text) =
         IF managedFields
         THEN ValueNodes(<<>>, object)
         ELSE {n \in ValueNodes(<<>>, object) : ~UnderManagedFields(n.path)}

\* C8 witness: an object with managedFields two levels down is shown as YAML
\* with the flag false.
C8_Witness ==
  /\ view.status = "rendered"
  /\ isYaml
  /\ ~managedFields
  /\ Has(Get(Get(object, "spec"), "template"), "managedFields")
  /\ Has(Get(object, "metadata"), "managedFields")
  /\ view.content.component = "CodeSnippet"

\* C9: toggling the display mode leaves the stored managed-fields flag as it
\* is, and in structured mode the flag has no effect on what is rendered: the
\* table is rendered as with the flag false and the Managed Fields switch is
\* shown unchecked.
C9_YamlToggleKeepsManagedFields ==
  /\ [](isOpen /\ ~isYaml =>
          /\ view = KubernetesDrawerContent(object, kind, cluster, FALSE, FALSE)
          /\ view.content.component = "StructuredMetadataTable"
          /\ ~view.managedFieldsSwitch)
  /\ [][(isOpen /\ isOpen' /\ isYaml' # isYaml)
          => managedFields' = managedFields]_vars

\* C9 witness: the flag set in YAML mode is still set in structured mode,
\* where the switch is shown unchecked.
C9_Witness ==
  /\ isOpen
  /\ ~isYaml
  /\ managedFields
  /\ view.status = "rendered"
  /\ ~view.managedFieldsSwitch

\* C10: between mount and unmount the managed-fields flag changes only in a
\* Managed Fields event taken while isYaml is true; such an event while
\* isYaml is false changes neither isYaml nor the flag, so the flag is never
\* set before YAML mode is on.
C10_ManagedFieldsChangesOnlyInYaml ==
  [][(isOpen /\ isOpen') =>
       /\ managedFields' # managedFields => (isYaml /\ isYaml')
       /\ (~isYaml /\ \E checked \in BOOLEAN : OnManagedFieldsChange(checked))
            => UNCHANGED <<isYaml, managedFields>>
       /\ (~managedFields /\ managedFields') => isYaml]_vars

\* C10 witness: the flag has been set in YAML mode and the switch shows it.
C10_Witness ==
  /\ isOpen
  /\ isYaml
  /\ managedFields
  /\ view.status = "rendered"
  /\ view.managedFieldsSwitch

-----------------------------------------------------------------------------
(* The normalizer's properties *)

RECURSIVE Nodes(_)
\* Every node of a value: the value and the nodes of its elements or members.
Nodes(value) ==
  {value} \cup
    (CASE value.t = "array" -> UNION {Nodes(value.v[i]) : i \in DOMAIN value.v}
       [] value.t = "object" ->
            UNION {Nodes(value.v[i][2]) : i \in DOMAIN value.v}
       [] OTHER -> {})

IsScalar(value) == value.t \in {"boolean", "number", "string"}

\* C4: after a successful normalization no node of the output, at any depth,
\* mapping value or sequence element, has the string form "null" or
\* "undefined": a removable node is removed, never left as a null placeholder.
C4_RemovableNodesAbsent ==
  (pc # "start" /\ first.status = "returned")
    => \A n \in Nodes(first.value) : ~Removable(n)

\* C5: when the top-level value is itself removable, the normalizer returns
\* an empty or undefined result instead of failing.
C5_RemovableRootReturnsEmpty ==
  (pc # "start" /\ Removable(input))
    => /\ first.status = "returned"
       /\ first.value \in {Undefined, Null, Str(""), Arr(<<>>), Obj(<<>>)}

\* C6: the normalizer is idempotent: on every input on which it succeeds,
\* normalizing its result gives that same result.
C6_Idempotent ==
  pc = "twice" => (first.status = "returned" /\ second = first)

\* C6 witness: an array holding a null and an array whose string form is
\* "null" has been normalized twice.
C6_Witness ==
  /\ pc = "twice"
  /\ input = Arr(<<Arr(<<Str("null")>>), Null>>)
  /\ first = Returned(Arr(<<Null, Null>>))
  /\ second = first

\* C7: for a mapping input, every entry whose value has the string form
\* "null" or "undefined" is absent from the result, every other scalar entry
\* is kept under its key with its value, and the input is not mutated.
C7_MappingEntries ==
  (pc # "start" /\ input.t = "object") =>
    /\ first.status = "returned"
    /\ first.value.t = "object"
    /\ \A i \in DOMAIN input.v :
         LET k == input.v[i][1]
             x == input.v[i][2]
         IN  /\ Removable(x) => ~Has(first.value, k)
             /\ (IsScalar(x) /\ ~Removable(x))
                  => (Has(first.value, k) /\ Get(first.value, k) = x)
    /\ someObj = input

\* C7 witness: {a: null, b: "undefined", c: 1} has been normalized to {c: 1}.
C7_Witness ==
  /\ pc = "once"
  /\ input = Obj(<< <<"a", Null>>, <<"b", Str("undefined")>>, <<"c", Num(1)>> >>)
  /\ first = Returned(Obj(<< <<"c", Num(1)>> >>))
  /\ someObj = input

====
